---- MODULE Spec2Model ----
(***************************************************************************)
(* Trial containers of psiz (src/psiz/trials.py), the agent that judges    *)
(* them (src/psiz/simulate.py) and the generator that draws them           *)
(* (src/psiz/generator.py): construction, subset, stack, simulate,         *)
(* probability, probability_tf and generate, with the configuration        *)
(* bookkeeping each of them recomputes.                                    *)
(*                                                                         *)
(* Arrays are sequences.  Sequence positions are 1-based; the VALUES kept  *)
(* in config_id, in index sequences and in outcome rows are the zero-based *)
(* numbers the code uses.                                                  *)
(***************************************************************************)
EXTENDS Integers, Sequences, FiniteSets, TLC

VARIABLES trials, trials_list, trials_list_after, call,
          trial_configuration, outcomes, embedding, prob, loop, file

\* the containers and the call made on them
trials_vars == <<trials, trials_list, trials_list_after, call>>

\* the outcome enumeration, the probability computation and the saved file
engine_vars == <<trial_configuration, outcomes, embedding, prob, loop, file>>

vars == <<trials, trials_list, trials_list_after, call,
          trial_configuration, outcomes, embedding, prob, loop, file>>

(***************************************************************************)
(* Bounds of the model.                                                    *)
(***************************************************************************)
\* rows of a stimulus matrix handed to a constructor
MaxInputTrial == 2
\* trials of any container (caps stack)
MaxTrial == 3
\* length of the index sequence handed to subset
MaxIndexLen == 2
\* containers handed to stack
MaxStackLen == 2
\* calls made on the containers after the constructor call
MaxCall == 2
\* n_reference of a trial configuration handed to possible_outcomes
MaxNReference == 5
\* n_selected of a trial configuration handed to possible_outcomes
MaxNSelected == 5
\* trials asked of one generate call
MaxGenerateTrial == 2
\* calls made on a container that is saved and loaded
MaxStoreCall == 3
\* trials of a container handed to probability_tf and to the loop of
\* probability
MaxProbabilityTrial == 4

(***************************************************************************)
(* Program constants.                                                      *)
(***************************************************************************)
\* self.max_n_reference = 9: the fixed padded width of stimulus_set
max_n_reference == 9

(***************************************************************************)
(* Generic helpers.                                                        *)
(***************************************************************************)
Range(s) == {s[i] : i \in 1..Len(s)}

Max(S) == CHOOSE x \in S : \A y \in S : y <= x

\* np.full / np.ones / np.zeros of one dimension
Full(n, v) == [i \in 1..n |-> v]

\* an optional argument: None, or a value
None == [given |-> FALSE, val |-> <<>>]
Some(v) == [given |-> TRUE, val |-> v]

\* Take as a boolean mask would: the indexed elements once each, in the
\* order of the array
Take_mask(a, index) ==
    LET picked == SelectSeq([k \in 1..Len(a) |-> k],
                            LAMBDA k : \E i \in 1..Len(index) : index[i] + 1 = k)
    IN [i \in 1..Len(picked) |-> a[picked[i]]]

\* a[index] for an integer index array (zero-based values)
Take(a, index) == [i \in 1..Len(index) |-> a[index[i] + 1]]

RECURSIVE Flatten(_)
Flatten(ss) == IF ss = <<>> THEN <<>> ELSE Head(ss) \o Flatten(Tail(ss))

(***************************************************************************)
(* SimilarityTrials.__init__                                               *)
(***************************************************************************)
\* number of columns of a stimulus matrix (stimulus_set.shape[1])
Width(stimulus_set) == Len(stimulus_set[1])

\* the count taken over the entries equal to the sentinel -1 alone
infer_n_reference_sentinel_only(stimulus_set) ==
    [t \in 1..Len(stimulus_set) |->
        (Width(stimulus_set) - 1)
        - Cardinality({j \in 1..Width(stimulus_set) : stimulus_set[t][j] = -1})]

\* n_reference = max_ref - np.sum(stimulus_set < 0, axis=1)
infer_n_reference(stimulus_set) ==
    [t \in 1..Len(stimulus_set) |->
        (Width(stimulus_set) - 1)
        - Cardinality({j \in 1..Width(stimulus_set) : stimulus_set[t][j] < 0})]

\* bad_locs taken as n_selected < 0: a 0 is left as it is
clamp_n_selected_below_zero(n_selected) ==
    [i \in 1..Len(n_selected) |-> IF n_selected[i] < 0 THEN 1 ELSE n_selected[i]]

\* n_selected[bad_locs] = 1 where n_selected < 1
clamp_n_selected(n_selected) ==
    [i \in 1..Len(n_selected) |-> IF n_selected[i] < 1 THEN 1 ELSE n_selected[i]]

\* the padding one column wider than max_n_reference
pad_stimulus_set_one_more(stimulus_set) ==
    LET n_pad == max_n_reference - Width(stimulus_set) + 1
    IN [t \in 1..Len(stimulus_set) |-> stimulus_set[t] \o Full(n_pad, 0)]

\* np.hstack((stimulus_set, np.zeros((n_trial, n_pad))))
pad_stimulus_set(stimulus_set) ==
    LET n_pad == max_n_reference - Width(stimulus_set)
    IN [t \in 1..Len(stimulus_set) |-> stimulus_set[t] \o Full(n_pad, 0)]

\* the base-class constructor: ok is FALSE when np.zeros is handed a
\* negative n_pad and raises
SimilarityTrials_init(stimulus_set, n_selected, is_ranked, n_reference) ==
    LET n_trial == Len(stimulus_set)
    IN [ok |-> max_n_reference - Width(stimulus_set) >= 0,
        n_trial |-> n_trial,
        stimulus_set |->
            IF max_n_reference - Width(stimulus_set) >= 0
            THEN pad_stimulus_set(stimulus_set) ELSE <<>>,
        n_reference |->
            IF n_reference.given THEN n_reference.val
            ELSE infer_n_reference(stimulus_set),
        n_selected |->
            IF n_selected.given THEN clamp_n_selected(n_selected.val)
            ELSE Full(n_trial, 1),
        is_ranked |->
            IF is_ranked.given THEN is_ranked.val ELSE Full(n_trial, TRUE)]

(***************************************************************************)
(* _generate_configuration_id                                              *)
(***************************************************************************)
\* drop_duplicates left out: every row kept
drop_duplicates_keep_all(rows) == rows

\* drop_duplicates(keep='last'): the last of equal rows kept
RECURSIVE drop_duplicates_keep_last(_)
drop_duplicates_keep_last(rows) ==
    IF rows = <<>> THEN <<>>
    ELSE LET rest == drop_duplicates_keep_last(Tail(rows))
         IN IF Head(rows) \in Range(rest) THEN rest ELSE <<Head(rows)>> \o rest

\* df_config.drop_duplicates(): keeps the first of equal rows, in order
RECURSIVE drop_duplicates(_)
drop_duplicates(rows) ==
    IF rows = <<>> THEN <<>>
    ELSE LET front == drop_duplicates(SubSeq(rows, 1, Len(rows) - 1))
             last == rows[Len(rows)]
         IN IF last \in Range(front) THEN front ELSE Append(front, last)

\* for i_type in range(n_config): config_id[display_type_locs] = i_type
\* (a later matching i_type overwrites an earlier one)
assign_config_id(rows, df_config) ==
    [t \in 1..Len(rows) |->
        Max({i_type \in 0..(Len(df_config) - 1) : df_config[i_type + 1] = rows[t]})]

\* the rows of the DataFrame built by UnjudgedTrials
unjudged_rows(n_reference, n_selected, is_ranked) ==
    [t \in 1..Len(n_reference) |->
        <<n_reference[t], n_selected[t], is_ranked[t]>>]

\* the rows built with a group column that does not follow group_id
judged_rows_group_zero(n_reference, n_selected, is_ranked, group_id) ==
    [t \in 1..Len(n_reference) |->
        <<n_reference[t], n_selected[t], is_ranked[t], 0, 0>>]

\* the rows of the DataFrame built by JudgedTrials; session_id is zeros
judged_rows(n_reference, n_selected, is_ranked, group_id) ==
    [t \in 1..Len(n_reference) |->
        <<n_reference[t], n_selected[t], is_ranked[t], group_id[t], 0>>]

(***************************************************************************)
(* The containers.                                                         *)
(***************************************************************************)
\* the outcome of a call that raised: no container
Raised ==
    [kind |-> "raised", n_trial |-> 0, stimulus_set |-> <<>>,
     n_reference |-> <<>>, n_selected |-> <<>>, is_ranked |-> <<>>,
     group_id |-> <<>>, config_list |-> <<>>, config_id |-> <<>>]

IsTrials(x) == x.kind \in {"UnjudgedTrials", "JudgedTrials"}

\* UnjudgedTrials.__init__; pd.DataFrame raises on arrays of unequal length
UnjudgedTrials(stimulus_set, n_selected, is_ranked, n_reference) ==
    LET base == SimilarityTrials_init(stimulus_set, n_selected, is_ranked,
                                      n_reference)
        rows == unjudged_rows(base.n_reference, base.n_selected,
                              base.is_ranked)
        df_config == drop_duplicates(rows)
    IN IF ~base.ok
          \/ Len(base.n_selected) # Len(base.n_reference)
          \/ Len(base.is_ranked) # Len(base.n_reference)
       THEN Raised
       ELSE [kind |-> "UnjudgedTrials", n_trial |-> base.n_trial,
             stimulus_set |-> base.stimulus_set,
             n_reference |-> base.n_reference,
             n_selected |-> base.n_selected,
             is_ranked |-> base.is_ranked,
             group_id |-> <<>>,
             config_list |-> df_config,
             config_id |-> assign_config_id(rows, df_config)]

\* group_id[bad_locs] = 0 where group_id < 0
clamp_group_id(group_id) ==
    [i \in 1..Len(group_id) |-> IF group_id[i] < 0 THEN 0 ELSE group_id[i]]

\* JudgedTrials.__init__
JudgedTrials(stimulus_set, n_selected, is_ranked, group_id, n_reference) ==
    LET base == SimilarityTrials_init(stimulus_set, n_selected, is_ranked,
                                      n_reference)
        gid == IF group_id.given THEN clamp_group_id(group_id.val)
               ELSE Full(base.n_trial, 0)
    IN IF ~base.ok
          \/ Len(base.n_selected) # Len(base.n_reference)
          \/ Len(base.is_ranked) # Len(base.n_reference)
          \/ Len(gid) # Len(base.n_reference)
       THEN Raised
       ELSE LET rows == judged_rows(base.n_reference, base.n_selected,
                                    base.is_ranked, gid)
                df_config == drop_duplicates(rows)
            IN [kind |-> "JudgedTrials", n_trial |-> base.n_trial,
                stimulus_set |-> base.stimulus_set,
                n_reference |-> base.n_reference,
                n_selected |-> base.n_selected,
                is_ranked |-> base.is_ranked,
                group_id |-> gid,
                config_list |-> df_config,
                config_id |-> assign_config_id(rows, df_config)]

(***************************************************************************)
(* subset and stack                                                        *)
(***************************************************************************)
\* UnjudgedTrials.subset: n_reference is not handed on
UnjudgedTrials_subset(self, index) ==
    UnjudgedTrials(Take(self.stimulus_set, index),
                   Some(Take(self.n_selected, index)),
                   Some(Take(self.is_ranked, index)), None)

\* JudgedTrials.subset: n_reference is not handed on
JudgedTrials_subset(self, index) ==
    JudgedTrials(Take(self.stimulus_set, index),
                 Some(Take(self.n_selected, index)),
                 Some(Take(self.is_ranked, index)),
                 Some(Take(self.group_id, index)), None)

subset(self, index) ==
    IF self.kind = "JudgedTrials" THEN JudgedTrials_subset(self, index)
    ELSE UnjudgedTrials_subset(self, index)

\* stack that joins the inputs' config_id arrays instead of recomputing
UnjudgedTrials_stack_joined_ids(list) ==
    LET stacked ==
            UnjudgedTrials(
                Flatten([k \in 1..Len(list) |-> list[k].stimulus_set]),
                Some(Flatten([k \in 1..Len(list) |-> list[k].n_selected])),
                Some(Flatten([k \in 1..Len(list) |-> list[k].is_ranked])),
                Some(Flatten([k \in 1..Len(list) |-> list[k].n_reference])))
    IN IF stacked = Raised THEN Raised
       ELSE [stacked EXCEPT
                !.config_id = Flatten([k \in 1..Len(list) |-> list[k].config_id])]

\* stack that does not hand n_reference on, as subset does not
UnjudgedTrials_stack_inferred(list) ==
    UnjudgedTrials(Flatten([k \in 1..Len(list) |-> list[k].stimulus_set]),
                   Some(Flatten([k \in 1..Len(list) |-> list[k].n_selected])),
                   Some(Flatten([k \in 1..Len(list) |-> list[k].is_ranked])),
                   None)

\* UnjudgedTrials.stack: np.vstack / np.hstack over the list
UnjudgedTrials_stack(list) ==
    UnjudgedTrials(Flatten([k \in 1..Len(list) |-> list[k].stimulus_set]),
                   Some(Flatten([k \in 1..Len(list) |-> list[k].n_selected])),
                   Some(Flatten([k \in 1..Len(list) |-> list[k].is_ranked])),
                   Some(Flatten([k \in 1..Len(list) |-> list[k].n_reference])))

\* JudgedTrials.stack; reading group_id of an UnjudgedTrials raises
JudgedTrials_stack(list) ==
    IF \E k \in 1..Len(list) : list[k].kind # "JudgedTrials" THEN Raised
    ELSE
    JudgedTrials(Flatten([k \in 1..Len(list) |-> list[k].stimulus_set]),
                 Some(Flatten([k \in 1..Len(list) |-> list[k].n_selected])),
                 Some(Flatten([k \in 1..Len(list) |-> list[k].is_ranked])),
                 Some(Flatten([k \in 1..Len(list) |-> list[k].group_id])),
                 Some(Flatten([k \in 1..Len(list) |-> list[k].n_reference])))

(***************************************************************************)
(* possible_outcomes                                                       *)
(***************************************************************************)
\* pool with the element at position i removed
Without(pool, i) == SubSeq(pool, 1, i - 1) \o SubSeq(pool, i + 1, Len(pool))

\* itertools.combinations(pool, r): the selections in ascending order only
RECURSIVE combinations(_, _)
combinations(pool, r) ==
    IF r = 0 THEN << <<>> >>
    ELSE IF r > Len(pool) THEN <<>>
    ELSE Flatten([i \in 1..Len(pool) |->
            LET rest == combinations(SubSeq(pool, i + 1, Len(pool)), r - 1)
            IN [j \in 1..Len(rest) |-> <<pool[i]>> \o rest[j]]])

\* the permutations drawn from the pool taken from its end
RECURSIVE permutations_from_end(_, _)
permutations_from_end(pool, r) ==
    IF r = 0 THEN << <<>> >>
    ELSE IF r > Len(pool) THEN <<>>
    ELSE Flatten([i \in 1..Len(pool) |->
            LET at == Len(pool) + 1 - i
                rest == permutations_from_end(Without(pool, at), r - 1)
            IN [j \in 1..Len(rest) |-> <<pool[at]>> \o rest[j]]])

\* itertools.permutations(pool, r) as a list, in the generator's order
RECURSIVE permutations(_, _)
permutations(pool, r) ==
    IF r = 0 THEN << <<>> >>
    ELSE IF r > Len(pool) THEN <<>>
    ELSE Flatten([i \in 1..Len(pool) |->
            LET rest == permutations(Without(pool, i), r - 1)
            IN [j \in 1..Len(rest) |-> <<pool[i]>> \o rest[j]]])

\* np.arange(n)
arange(n) == [i \in 1..n |-> i - 1]

\* the indices left, each removed index's successor first (descending)
unselected_descending(n_reference, selected) ==
    LET left == SelectSeq(arange(n_reference),
                          LAMBDA x : x \notin Range(selected))
    IN [i \in 1..Len(left) |-> left[Len(left) + 1 - i]]

\* dummy_idx after removing every selected index
unselected(n_reference, selected) ==
    SelectSeq(arange(n_reference), LAMBDA x : x \notin Range(selected))

\* possible_outcomes(trial_configuration): one row per outcome
possible_outcomes(n_reference, n_selected) ==
    LET selection == permutations(arange(n_reference), n_selected)
    IN [i_outcome \in 1..Len(selection) |->
            selection[i_outcome]
            \o unselected(n_reference, selection[i_outcome])]

(***************************************************************************)
(* Agent.simulate                                                          *)
(***************************************************************************)
\* the outcome set of the configuration of trial t
trial_outcomes(self, t) ==
    LET config == self.config_list[self.config_id[t] + 1]
    IN possible_outcomes(config[1], config[2])

\* the row of a matrix started as a copy of trials.stimulus_set: the columns
\* beyond n_reference keep what the input holds
select_row_on_copy(self, t, outcome) ==
    LET n_reference == self.config_list[self.config_id[t] + 1][1]
        stimuli_set_ref == Tail(self.stimulus_set[t])
    IN <<self.stimulus_set[t][1]>>
       \o [k \in 1..n_reference |-> stimuli_set_ref[outcome[k] + 1]]
       \o SubSeq(stimuli_set_ref, n_reference + 1, Len(stimuli_set_ref))

\* the row _select writes for trial t when it draws outcome row `outcome`:
\* query, references reordered, -1 in the columns left
select_row(self, t, outcome) ==
    LET n_reference == self.config_list[self.config_id[t] + 1][1]
        max_n_ref == Len(self.stimulus_set[t]) - 1
        stimuli_set_ref == Tail(self.stimulus_set[t])
    IN <<self.stimulus_set[t][1]>>
       \o [k \in 1..n_reference |-> stimuli_set_ref[outcome[k] + 1]]
       \o Full(max_n_ref - n_reference, -1)

\* the rows trial t can get: every outcome has positive probability
select_rows(self, t) ==
    {select_row(self, t, trial_outcomes(self, t)[k]) :
        k \in 1..Len(trial_outcomes(self, t))}

\* a configuration without outcomes makes the multinomial draw raise
can_select(self) ==
    \A t \in 1..self.n_trial : Len(trial_outcomes(self, t)) > 0

\* Agent._select once the rows are drawn
select_result(self, stimulus_set, agent_group_id) ==
    JudgedTrials(stimulus_set, Some(self.n_selected), Some(self.is_ranked),
                 Some(Full(self.n_trial, agent_group_id)), None)

(***************************************************************************)
(* Agent.probability, in exact arithmetic: a number is <<numerator,         *)
(* denominator>> in lowest terms, and <<0, 0>> is nan.                     *)
(***************************************************************************)
RECURSIVE GCD(_, _)
GCD(a, b) == IF b = 0 THEN a ELSE GCD(b, a % b)

\* n / d in lowest terms (n >= 0, d > 0)
Rat(n, d) == <<n \div GCD(n, d), d \div GCD(n, d)>>

Zero == <<0, 1>>
One == <<1, 1>>
NaN == <<0, 0>>

np_add(x, y) == Rat(x[1] * y[2] + y[1] * x[2], x[2] * y[2])

np_multiply(x, y) == Rat(x[1] * y[1], x[2] * y[2])

\* np.divide: 0 / 0 is nan (a warning, not an exception)
np_divide(x, y) ==
    IF y[1] = 0 THEN NaN ELSE Rat(x[1] * y[2], x[2] * y[1])

\* np.sum over one axis
RECURSIVE np_sum(_)
np_sum(a) == IF a = <<>> THEN Zero ELSE np_add(Head(a), np_sum(Tail(a)))

\* embedding.z['value'][i, :]: a negative index counts from the end
z_value(z, i) == z[(IF i < 0 THEN Len(z) + i ELSE i) + 1]

\* embedding.similarity(z_q, z_ref, attention): a strictly positive score
\* that falls with the attention-weighted distance
similarity(z_q, z_ref, attention) ==
    LET d == IF z_q >= z_ref THEN z_q - z_ref ELSE z_ref - z_q
    IN Rat(1, 1 + attention * d)

\* s_qref of trial t: the similarity of the query to each of the n_reference
\* references of the trial's configuration
s_qref(self, z, attention, t) ==
    LET n_reference == self.config_list[self.config_id[t] + 1][1]
    IN [i_ref \in 1..n_reference |->
            similarity(z_value(z, self.stimulus_set[t][1]),
                       z_value(z, self.stimulus_set[t][1 + i_ref]),
                       attention)]

\* the loop over i_selected that never adds the previous selection to total
RECURSIVE reverse_order_product_fixed_total(_, _, _, _)
reverse_order_product_fixed_total(s_qref_perm, i_selected, total, p) ==
    IF i_selected < 0 THEN p
    ELSE reverse_order_product_fixed_total(
            s_qref_perm, i_selected - 1, total,
            np_multiply(p, np_divide(s_qref_perm[i_selected + 1], total)))

\* for i_selected in range(n_selected_idx, -1, -1): multiply by the selected
\* similarity over total, then add the previous selection to total
RECURSIVE reverse_order_product(_, _, _, _)
reverse_order_product(s_qref_perm, i_selected, total, p) ==
    IF i_selected < 0 THEN p
    ELSE reverse_order_product(
            s_qref_perm, i_selected - 1,
            IF i_selected > 0 THEN np_add(total, s_qref_perm[i_selected])
            ELSE total,
            np_multiply(p, np_divide(s_qref_perm[i_selected + 1], total)))

\* total started one column late: the last selection left out of it
outcome_probability_late_total(s, outcome, n_selected_idx) ==
    LET s_qref_perm == [k \in 1..Len(outcome) |-> s[outcome[k] + 1]]
        total == np_sum(SubSeq(s_qref_perm, n_selected_idx + 2,
                               Len(s_qref_perm)))
    IN reverse_order_product(s_qref_perm, n_selected_idx, total, One)

\* prob[:, i_outcome] of one trial: s is its s_qref row
outcome_probability(s, outcome, n_selected_idx) ==
    LET s_qref_perm == [k \in 1..Len(outcome) |-> s[outcome[k] + 1]]
        total == np_sum(SubSeq(s_qref_perm, n_selected_idx + 1,
                               Len(s_qref_perm)))
    IN reverse_order_product(s_qref_perm, n_selected_idx, total, One)

\* outcome_idx_list: one outcome matrix per configuration
outcome_idx_list(self) ==
    [i_config \in 1..Len(self.config_list) |->
        possible_outcomes(self.config_list[i_config][1],
                          self.config_list[i_config][2])]

\* prob_all before the correction: the row of trial t holds the probability
\* of each outcome of its configuration, then zeros up to max_n_outcome
prob_all_uncorrected(self, z, attention) ==
    LET outcome_idx == outcome_idx_list(self)
        max_n_outcome ==
            Max({0} \cup {Len(outcome_idx[i]) : i \in 1..Len(outcome_idx)})
    IN [t \in 1..self.n_trial |->
            LET i_config == self.config_id[t] + 1
                n_outcome == Len(outcome_idx[i_config])
                n_selected_idx == self.config_list[i_config][2] - 1
                s == s_qref(self, z, attention, t)
            IN [i_outcome \in 1..max_n_outcome |->
                    IF i_outcome <= n_outcome
                    THEN outcome_probability(s, outcome_idx[i_config][i_outcome],
                                             n_selected_idx)
                    ELSE Zero]]

\* np.divide(prob_all, np.sum(prob_all, axis=1, keepdims=True))
correct_rows(prob_all) ==
    [t \in 1..Len(prob_all) |->
        [k \in 1..Len(prob_all[t]) |->
            np_divide(prob_all[t][k], np_sum(prob_all[t]))]]

\* probability that takes, for each trial of a JudgedTrials, the attention
\* weights of the group the trial carries
Agent_probability_trial_group(self, emb, group_id) ==
    LET uncorrected ==
            [t \in 1..self.n_trial |->
                prob_all_uncorrected(
                    self, emb.z,
                    emb.attention[(IF self.kind = "JudgedTrials"
                                   THEN self.group_id[t] ELSE group_id) + 1])[t]]
    IN [outcome_idx_list |-> outcome_idx_list(self),
        uncorrected |-> uncorrected,
        prob_all |-> correct_rows(uncorrected)]

\* Agent(embedding, group_id).probability(trials); uncorrected is prob_all as
\* it stands before the last statement
Agent_probability(self, emb, group_id) ==
    LET uncorrected ==
            prob_all_uncorrected(self, emb.z, emb.attention[group_id + 1])
    IN [outcome_idx_list |-> outcome_idx_list(self),
        uncorrected |-> uncorrected,
        prob_all |-> correct_rows(uncorrected)]

(***************************************************************************)
(* Inputs of the calls.                                                    *)
(***************************************************************************)
\* a row of `width` columns: query `first`, then n_ref references, then -1
stimulus_row(first, n_ref, width) ==
    [j \in 1..width |-> IF j <= n_ref + 1 THEN first + j - 1 ELSE -1]

\* a row no trial can have: the query repeated as a reference, and an entry
\* below the sentinel
malformed_row == <<5, 5, -2>>

\* the rows a caller hands in, by width of the matrix
InputRows(width) ==
    CASE width = 3 -> {stimulus_row(0, 2, 3), stimulus_row(3, 1, 3),
                       malformed_row}
      [] width = 9 -> {stimulus_row(0, 2, 9), stimulus_row(3, 3, 9)}
      [] width = 10 -> {stimulus_row(0, 9, 10)}

InputWidths == {3, 9, 10}

StimulusSets ==
    UNION {[1..n -> InputRows(w)] : n \in 1..MaxInputTrial, w \in InputWidths}

\* n_selected: one value per trial, or an array one too long
NSelectedArgs(n_trial) ==
    {Some(a) : a \in [1..n_trial -> {0, 1, 2}]}
    \cup {Some(Full(n_trial + 1, 1))}

\* is_ranked: one flag for all trials
IsRankedArgs(n_trial) == {Some(Full(n_trial, FALSE))}

\* n_reference: declared per trial
NReferenceArgs(n_trial) == {Some(a) : a \in [1..n_trial -> {1, 2}]}

\* group_id: one value per trial
GroupIdArgs(n_trial) == {Some(a) : a \in [1..n_trial -> {-1, 1}]}

NoArgs ==
    [n_selected |-> None, is_ranked |-> None, n_reference |-> None,
     group_id |-> None]

\* the optional arguments of a constructor call: all omitted, or one given
UnjudgedArgs(n_trial) ==
    {NoArgs}
    \cup {[NoArgs EXCEPT !.n_selected = a] : a \in NSelectedArgs(n_trial)}
    \cup {[NoArgs EXCEPT !.is_ranked = a] : a \in IsRankedArgs(n_trial)}
    \cup {[NoArgs EXCEPT !.n_reference = a] : a \in NReferenceArgs(n_trial)}

JudgedArgs(n_trial) ==
    UnjudgedArgs(n_trial)
    \cup {[NoArgs EXCEPT !.group_id = a] : a \in GroupIdArgs(n_trial)}

\* the group an Agent is configured with
AgentGroupIds == {0, 1}

\* the embeddings an Agent is built on: the position of each of 7 stimuli
\* on one dimension and one attention weight per group
Embeddings ==
    {[z |-> <<0, 1, 2, 3, 4, 5, 6>>, attention |-> <<1, 2>>],
     [z |-> <<0, 2, 1, 0, 3, 1, 2>>, attention |-> <<1, 3>>]}

\* index sequences into a container of n_trial trials
IndexArgs(n_trial) ==
    UNION {[1..n -> 0..(n_trial - 1)] : n \in 1..MaxIndexLen}

NoCall ==
    [name |-> "none", variant |-> "", stimulus_set |-> <<>>,
     n_selected |-> None, is_ranked |-> None, n_reference |-> None,
     group_id |-> None, index |-> <<>>, agent_group_id |-> 0, n_call |-> 0]

\* the containers the caller can hand to the next call
Pool == {x \in {trials} \cup Range(trials_list) : IsTrials(x)}

(***************************************************************************)
(* What a call leaves of the containers handed to it.  An array a          *)
(* constructor is handed as it is, without a copy, is the array the        *)
(* constructor writes on: n_selected[bad_locs] = 1, group_id[bad_locs] = 0. *)
(***************************************************************************)
\* UnjudgedTrials.stack: from a list of one container no np.hstack is made,
\* and the constructor is handed the container's own n_selected
UnjudgedTrials_stack_after(list) ==
    IF Len(list) = 1
    THEN <<[list[1] EXCEPT !.n_selected = clamp_n_selected(@)]>>
    ELSE list

\* JudgedTrials.stack: the same, with the container's own group_id
JudgedTrials_stack_after(list) ==
    IF Len(list) = 1 /\ list[1].kind = "JudgedTrials"
    THEN <<[list[1] EXCEPT !.n_selected = clamp_n_selected(@),
                          !.group_id = clamp_group_id(@)]>>
    ELSE list

\* _select that writes the rows it draws into trials.stimulus_set itself
select_after_in_place(self, stimulus_set) ==
    [self EXCEPT !.stimulus_set = stimulus_set,
                 !.n_selected = clamp_n_selected(@)]

\* Agent._select: the rows drawn go into a matrix of its own, and the
\* constructor is handed trials.n_selected
select_after(self, stimulus_set) ==
    [self EXCEPT !.n_selected = clamp_n_selected(@)]

(***************************************************************************)
(* The state machine.                                                      *)
(*   trials       the value returned by the last call (Raised if it raised) *)
(*   trials_list  the containers handed to the last call                   *)
(*   trials_list_after  those containers as the call leaves them           *)
(*   call         the last call and its other arguments                    *)
(***************************************************************************)
\* nothing enumerated, nothing computed
NoEngine ==
    /\ trial_configuration = None
    /\ outcomes = None
    /\ embedding = None
    /\ prob = None
    /\ loop = None
    /\ file = None

Init ==
    /\ trials = Raised
    /\ trials_list = <<>>
    /\ trials_list_after = <<>>
    /\ call = NoCall
    /\ NoEngine

\* A constructor reads nothing of the state, so every container it can build
\* is built from the initial state; the calls that follow start from there.
\* UnjudgedTrials(stimulus_set, n_selected, is_ranked, n_reference)
ConstructUnjudged ==
    /\ call = NoCall
    /\ UNCHANGED engine_vars
    /\ \E stimulus_set \in StimulusSets :
       \E args \in UnjudgedArgs(Len(stimulus_set)) :
           /\ trials' = UnjudgedTrials(stimulus_set, args.n_selected,
                                       args.is_ranked, args.n_reference)
           /\ trials_list' = <<>>
           /\ trials_list_after' = <<>>
           /\ call' = [NoCall EXCEPT !.name = "construct",
                           !.variant = "UnjudgedTrials",
                           !.stimulus_set = stimulus_set,
                           !.n_selected = args.n_selected,
                           !.is_ranked = args.is_ranked,
                           !.n_reference = args.n_reference]

\* JudgedTrials(stimulus_set, n_selected, is_ranked, group_id, n_reference)
ConstructJudged ==
    /\ call = NoCall
    /\ UNCHANGED engine_vars
    /\ \E stimulus_set \in StimulusSets :
       \E args \in JudgedArgs(Len(stimulus_set)) :
           /\ trials' = JudgedTrials(stimulus_set, args.n_selected,
                                     args.is_ranked, args.group_id,
                                     args.n_reference)
           /\ trials_list' = <<>>
           /\ trials_list_after' = <<>>
           /\ call' = [NoCall EXCEPT !.name = "construct",
                           !.variant = "JudgedTrials",
                           !.stimulus_set = stimulus_set,
                           !.n_selected = args.n_selected,
                           !.is_ranked = args.is_ranked,
                           !.n_reference = args.n_reference,
                           !.group_id = args.group_id]

\* self.subset(index)
Subset ==
    /\ call.n_call < MaxCall
    /\ UNCHANGED engine_vars
    /\ \E self \in Pool :
       \E index \in IndexArgs(self.n_trial) :
           /\ trials' = subset(self, index)
           /\ trials_list' = <<self>>
           /\ trials_list_after' = <<self>>
           /\ call' = [NoCall EXCEPT !.name = "subset", !.variant = self.kind,
                           !.index = index, !.n_call = call.n_call + 1]

\* the lists of containers a caller can stack
StackArgs ==
    {list \in UNION {[1..n -> Pool] : n \in 1..MaxStackLen} :
        Len(Flatten([k \in 1..Len(list) |-> list[k].n_selected])) <= MaxTrial}

\* UnjudgedTrials.stack(trials_list)
StackUnjudged ==
    /\ call.n_call < MaxCall
    /\ UNCHANGED engine_vars
    /\ \E list \in StackArgs :
           /\ trials' = UnjudgedTrials_stack(list)
           /\ trials_list' = list
           /\ trials_list_after' = UnjudgedTrials_stack_after(list)
           /\ call' = [NoCall EXCEPT !.name = "stack",
                           !.variant = "UnjudgedTrials",
                           !.n_call = call.n_call + 1]

\* JudgedTrials.stack(trials_list)
StackJudged ==
    /\ call.n_call < MaxCall
    /\ UNCHANGED engine_vars
    /\ \E list \in StackArgs :
           /\ trials' = JudgedTrials_stack(list)
           /\ trials_list' = list
           /\ trials_list_after' = JudgedTrials_stack_after(list)
           /\ call' = [NoCall EXCEPT !.name = "stack",
                           !.variant = "JudgedTrials",
                           !.n_call = call.n_call + 1]

\* the stimulus matrices _select can build for the first n trials
RECURSIVE select_stimulus_sets(_, _)
select_stimulus_sets(self, n) ==
    IF n = 0 THEN {<<>>}
    ELSE {Append(m, row) : m \in select_stimulus_sets(self, n - 1),
                           row \in select_rows(self, n)}

\* Agent(embedding, agent_group_id).simulate(self): the draw succeeds
Simulate ==
    /\ call.n_call < MaxCall
    /\ UNCHANGED engine_vars
    /\ \E self \in Pool :
       \E agent_group_id \in AgentGroupIds :
           /\ can_select(self)
           /\ \E stimulus_set \in select_stimulus_sets(self, self.n_trial) :
                 /\ trials' = select_result(self, stimulus_set, agent_group_id)
                 /\ trials_list_after' = <<select_after(self, stimulus_set)>>
           /\ trials_list' = <<self>>
           /\ call' = [NoCall EXCEPT !.name = "simulate",
                           !.variant = self.kind,
                           !.agent_group_id = agent_group_id,
                           !.n_call = call.n_call + 1]

\* Agent.simulate(self) on a configuration without outcomes: the draw raises
SimulateRaises ==
    /\ call.n_call < MaxCall
    /\ UNCHANGED engine_vars
    /\ \E self \in Pool :
       \E agent_group_id \in AgentGroupIds :
           /\ ~can_select(self)
           /\ trials' = Raised
           /\ trials_list' = <<self>>
           /\ trials_list_after' = <<self>>
           /\ call' = [NoCall EXCEPT !.name = "simulate",
                           !.variant = self.kind,
                           !.agent_group_id = agent_group_id,
                           !.n_call = call.n_call + 1]

Next ==
    \/ ConstructUnjudged
    \/ ConstructJudged
    \/ Subset
    \/ StackUnjudged
    \/ StackJudged
    \/ Simulate
    \/ SimulateRaises

Spec == Init /\ [][Next]_vars

(***************************************************************************)
(* Agent.probability on the containers a constructor builds.               *)
(*   embedding  the embedding of the agent of the last call                *)
(*   prob       what the call returned, and prob_all before the correction *)
(***************************************************************************)
\* Agent(embedding, agent_group_id).probability(self)
Probability ==
    /\ call.n_call < MaxCall
    /\ UNCHANGED <<trials, trial_configuration, outcomes, loop, file>>
    /\ \E self \in Pool :
       \E emb \in Embeddings :
       \E agent_group_id \in AgentGroupIds :
           /\ embedding' = Some(emb)
           /\ prob' = Some(Agent_probability(self, emb, agent_group_id))
           /\ trials_list' = <<self>>
           /\ trials_list_after' = <<self>>
           /\ call' = [NoCall EXCEPT !.name = "probability",
                           !.variant = self.kind,
                           !.agent_group_id = agent_group_id,
                           !.n_call = call.n_call + 1]

NextAgent ==
    \/ ConstructUnjudged
    \/ ConstructJudged
    \/ Probability

SpecAgent == Init /\ [][NextAgent]_vars

\* every call on the containers, probability among them as the first call
\* on a container a constructor built
NextFrame ==
    \/ Next
    \/ call.n_call = 0 /\ Probability

SpecFrame == Init /\ [][NextFrame]_vars

(***************************************************************************)
(* possible_outcomes as a function of its argument alone.                  *)
(*   trial_configuration  the row of a configuration table handed in       *)
(*   outcomes             the matrix returned, one sequence per row        *)
(***************************************************************************)
\* the rows a configuration table can hold; n_reference is 0 for a trial of
\* a query alone, n_selected is at least 1 once the constructor has run
TrialConfigurations ==
    [n_reference : 0..MaxNReference, n_selected : 1..MaxNSelected,
     is_ranked : BOOLEAN]

InitOutcomes ==
    /\ trials = Raised
    /\ trials_list = <<>>
    /\ trials_list_after = <<>>
    /\ call = NoCall
    /\ trial_configuration \in {Some(c) : c \in TrialConfigurations}
    /\ outcomes = None
    /\ embedding = None
    /\ prob = None
    /\ loop = None
    /\ file = None

\* possible_outcomes(trial_configuration)
PossibleOutcomes ==
    /\ outcomes = None
    /\ outcomes' = Some(possible_outcomes(trial_configuration.val.n_reference,
                                          trial_configuration.val.n_selected))
    /\ UNCHANGED <<trial_configuration, embedding, prob, loop, file>>
    /\ UNCHANGED trials_vars

NextOutcomes == PossibleOutcomes

SpecOutcomes == InitOutcomes /\ [][NextOutcomes]_vars

(***************************************************************************)
(* RandomGenerator.generate                                                *)
(***************************************************************************)
\* np.sort of one row
RECURSIVE np_sort(_)
np_sort(a) ==
    IF a = <<>> THEN <<>>
    ELSE LET i == CHOOSE i \in 1..Len(a) : \A j \in 1..Len(a) : a[i] <= a[j]
         IN <<a[i]>> \o np_sort(Without(a, i))

\* np.random.choice(n_stimuli, (1, size), False): the rows it can draw, `size`
\* different stimuli in any order
choice(n_stimuli, size) ==
    {d \in [1..size -> 0..(n_stimuli - 1)] :
        \A i, j \in 1..size : i # j => d[i] # d[j]}

\* the rows of stimulus_set once stimulus_set[:, 1:] is sorted
generate_rows(n_stimuli, n_reference) ==
    {<<d[1]>> \o np_sort(Tail(d)) : d \in choice(n_stimuli, n_reference + 1)}

\* return UnjudgedTrials(stimulus_set, n_selected=n_selected,
\*                       is_ranked=is_ranked) on the repeated arguments
RandomGenerator_generate(stimulus_set, n_trial, n_selected, is_ranked) ==
    UnjudgedTrials(stimulus_set, Some(Full(n_trial, n_selected)),
                   Some(Full(n_trial, is_ranked)), None)

\* the requests: 4 stimuli, or 10 stimuli and one trial; n_reference 9 asks
\* for a row of 10 columns
GenerateArgs ==
    {a \in [n_stimuli : {4, 10}, n_trial : 1..MaxGenerateTrial,
            n_reference : {1, 2, 3, 9}, n_selected : {0, 1, 2},
            is_ranked : BOOLEAN] :
        a.n_stimuli = 10 => a.n_trial = 1}

\* the call RandomGenerator(n_stimuli).generate(n_trial, n_reference,
\* n_selected, is_ranked)
GenerateCall(a) ==
    [name |-> "generate", n_stimuli |-> a.n_stimuli, n_trial |-> a.n_trial,
     n_reference |-> a.n_reference, n_selected |-> a.n_selected,
     is_ranked |-> a.is_ranked, n_call |-> 0]

\* generate draws its rows and hands them to the constructor
Generate ==
    /\ call = NoCall
    /\ UNCHANGED engine_vars
    /\ \E a \in GenerateArgs :
           /\ a.n_reference + 1 <= a.n_stimuli
           /\ a.n_reference + 1 <= max_n_reference
           /\ \E stimulus_set \in
                    [1..a.n_trial -> generate_rows(a.n_stimuli, a.n_reference)] :
                 trials' = RandomGenerator_generate(stimulus_set, a.n_trial,
                                                    a.n_selected, a.is_ranked)
           /\ trials_list' = <<>>
           /\ trials_list_after' = <<>>
           /\ call' = GenerateCall(a)

\* generate raises: np.random.choice cannot draw n_reference + 1 different
\* stimuli out of n_stimuli, or the constructor is handed more columns than
\* max_n_reference and np.zeros raises on the negative n_pad, whatever the
\* rows drawn
GenerateRaises ==
    /\ call = NoCall
    /\ UNCHANGED engine_vars
    /\ \E a \in GenerateArgs :
           /\ \/ a.n_reference + 1 > a.n_stimuli
              \/ a.n_reference + 1 > max_n_reference
           /\ trials' =
                 IF a.n_reference + 1 > a.n_stimuli THEN Raised
                 ELSE RandomGenerator_generate(
                         Full(a.n_trial, arange(a.n_reference + 1)),
                         a.n_trial, a.n_selected, a.is_ranked)
           /\ trials_list' = <<>>
           /\ trials_list_after' = <<>>
           /\ call' = GenerateCall(a)

NextGenerator ==
    \/ Generate
    \/ GenerateRaises

SpecGenerator == Init /\ [][NextGenerator]_vars

(***************************************************************************)
(* save, load_trials and set_group_id.                                     *)
(*   file  the arrays of the saved container (None: nothing saved)         *)
(***************************************************************************)
\* self.save(filepath): the arrays the container owns, under its variant
save(self) ==
    [kind |-> self.kind, stimulus_set |-> self.stimulus_set,
     n_reference |-> self.n_reference, n_selected |-> self.n_selected,
     is_ranked |-> self.is_ranked, group_id |-> self.group_id]

\* load_trials(filepath): the container constructed from the arrays of the
\* file; the configuration table is computed again
load_trials(f) ==
    IF f.kind = "JudgedTrials"
    THEN JudgedTrials(f.stimulus_set, Some(f.n_selected), Some(f.is_ranked),
                      Some(f.group_id), Some(f.n_reference))
    ELSE UnjudgedTrials(f.stimulus_set, Some(f.n_selected),
                        Some(f.is_ranked), Some(f.n_reference))

\* the argument of set_group_id: one value (held as <<v>>), or an array
Scalar(v) == [scalar |-> TRUE, val |-> <<v>>]
Array(a) == [scalar |-> FALSE, val |-> a]

\* one value, arrays of one entry per trial, and arrays one entry too long
\* and one too short
SetGroupIdArgs(n_trial) ==
    {Scalar(3)}
    \cup {Array(a) : a \in [1..n_trial -> {1, 2}]}
    \cup {Array(Full(n_trial + 1, 1)), Array(Full(n_trial - 1, 1))}

\* an array fits when it has one entry per trial
can_set_group_id(self, group_id) ==
    group_id.scalar \/ Len(group_id.val) = self.n_trial

\* self.set_group_id(group_id): one value goes to every trial, an array is
\* taken as it is; the configuration table is computed again
set_group_id(self, group_id) ==
    LET gid == IF group_id.scalar THEN Full(self.n_trial, group_id.val[1])
               ELSE group_id.val
        rows == judged_rows(self.n_reference, self.n_selected,
                            self.is_ranked, gid)
        df_config == drop_duplicates(rows)
    IN [self EXCEPT !.group_id = gid,
                    !.config_list = df_config,
                    !.config_id = assign_config_id(rows, df_config)]

\* trials.set_group_id(group_id) on the JudgedTrials last built
SetGroupId ==
    /\ call.n_call < MaxStoreCall
    /\ trials.kind = "JudgedTrials"
    /\ UNCHANGED engine_vars
    /\ \E group_id \in SetGroupIdArgs(trials.n_trial) :
           /\ can_set_group_id(trials, group_id)
           /\ trials' = set_group_id(trials, group_id)
           /\ trials_list' = <<trials>>
           /\ trials_list_after' = <<set_group_id(trials, group_id)>>
           /\ call' = [NoCall EXCEPT !.name = "set_group_id",
                           !.variant = trials.kind,
                           !.group_id = Some(group_id),
                           !.n_call = call.n_call + 1]

\* trials.set_group_id(group_id) with an array of another length: the call
\* raises and the container is left as it was
SetGroupIdRaises ==
    /\ call.n_call < MaxStoreCall
    /\ trials.kind = "JudgedTrials"
    /\ UNCHANGED engine_vars
    /\ \E group_id \in SetGroupIdArgs(trials.n_trial) :
           /\ ~can_set_group_id(trials, group_id)
           /\ trials' = trials
           /\ trials_list' = <<trials>>
           /\ trials_list_after' = <<trials>>
           /\ call' = [NoCall EXCEPT !.name = "set_group_id",
                           !.variant = Raised.kind,
                           !.group_id = Some(group_id),
                           !.n_call = call.n_call + 1]

\* trials.save(filepath) on the container last built
Save ==
    /\ call.n_call < MaxStoreCall
    /\ IsTrials(trials)
    /\ UNCHANGED <<trials, trial_configuration, outcomes, embedding, prob,
                   loop>>
    /\ file' = Some(save(trials))
    /\ trials_list' = <<trials>>
    /\ trials_list_after' = <<trials>>
    /\ call' = [NoCall EXCEPT !.name = "save", !.variant = trials.kind,
                    !.n_call = call.n_call + 1]

\* load_trials(filepath) of the file just saved
Load ==
    /\ call.name = "save"
    /\ file.given
    /\ UNCHANGED engine_vars
    /\ trials' = load_trials(file.val)
    /\ UNCHANGED <<trials_list, trials_list_after>>
    /\ call' = [NoCall EXCEPT !.name = "load", !.variant = file.val.kind,
                    !.n_call = call.n_call + 1]

NextStore ==
    \/ ConstructUnjudged
    \/ ConstructJudged
    \/ SetGroupId
    \/ SetGroupIdRaises
    \/ Save
    \/ Load

SpecStore == Init /\ [][NextStore]_vars

(***************************************************************************)
(* Agent.probability_tf, and the loop of Agent.probability one             *)
(* configuration at a time.                                                *)
(*   loop  prob_all as the loop over the configurations has it so far      *)
(***************************************************************************)
\* dmy_idx[trial_locs]: the trials (from 0) of configuration i_config, in
\* ascending order
trial_idx(self, i_config) ==
    SelectSeq(arange(self.n_trial),
              LAMBDA t : self.config_id[t + 1] = i_config)

\* max_n_outcome over the configurations of the container
max_n_outcome(self) ==
    Max({0} \cup {Len(outcome_idx_list(self)[i]) :
                     i \in 1..Len(self.config_list)})

\* prob of configuration i_config: one row per trial of trial_idx, one
\* column per outcome of the configuration
config_prob(self, z, attention, i_config) ==
    LET idx == trial_idx(self, i_config)
        outcome_idx == outcome_idx_list(self)[i_config + 1]
        n_selected_idx == self.config_list[i_config + 1][2] - 1
    IN [k \in 1..Len(idx) |->
            [i_outcome \in 1..Len(outcome_idx) |->
                outcome_probability(s_qref(self, z, attention, idx[k] + 1),
                                    outcome_idx[i_outcome], n_selected_idx)]]

\* tf.concat((prob, prob_zero)) and tf.transpose: the rows filled with zeros
\* up to max_n_outcome
pad_prob(prob_i, width) ==
    [k \in 1..Len(prob_i) |-> prob_i[k] \o Full(width - Len(prob_i[k]), Zero)]

\* tf.gather(params, indices): row k of the result is row indices[k]
tf_gather(params, indices) ==
    [k \in 1..Len(indices) |-> params[indices[k] + 1]]

\* Agent(embedding, group_id).probability_tf(trials, z_tf, tf_theta) with the
\* tensors at the values the embedding stores: the attention weights are
\* attention['value'][0, :]; the blocks of the configurations are joined
\* in the order of the table, and so are their trial indices
Agent_probability_tf(self, emb, group_id) ==
    LET attention == emb.attention[1]
        n_config == Len(self.config_list)
        prob_joined ==
            Flatten([i \in 1..n_config |->
                        pad_prob(config_prob(self, emb.z, attention, i - 1),
                                 max_n_outcome(self))])
        indices_all == Flatten([i \in 1..n_config |-> trial_idx(self, i - 1)])
        gathered == tf_gather(prob_joined, indices_all)
    IN [outcome_idx_list |-> outcome_idx_list(self),
        uncorrected |-> gathered,
        prob_all |-> correct_rows(gathered)]

\* a trial handed to the constructor: its row and its n_selected
TrialInputs ==
    {<<stimulus_row(0, 2, 3), 1>>, <<stimulus_row(0, 2, 3), 2>>,
     <<stimulus_row(3, 2, 3), 1>>, <<stimulus_row(3, 2, 3), 2>>,
     <<stimulus_row(3, 1, 3), 1>>}

\* the containers UnjudgedTrials builds of them, in any order of the trials
BuiltTrials ==
    {UnjudgedTrials([t \in 1..Len(in) |-> in[t][1]],
                    Some([t \in 1..Len(in) |-> in[t][2]]), None, None) :
        in \in UNION {[1..n -> TrialInputs] : n \in 1..MaxProbabilityTrial}}

\* a container is built, no call made on it yet
InitTrials ==
    /\ trials \in BuiltTrials
    /\ trials_list = <<>>
    /\ trials_list_after = <<>>
    /\ call = NoCall
    /\ NoEngine

\* Agent(embedding, agent_group_id).probability_tf(trials, z_tf, tf_theta)
ProbabilityTF ==
    /\ call = NoCall
    /\ UNCHANGED <<trials, trial_configuration, outcomes, loop, file>>
    /\ \E emb \in Embeddings :
       \E agent_group_id \in AgentGroupIds :
           /\ embedding' = Some(emb)
           /\ prob' = Some(Agent_probability_tf(trials, emb, agent_group_id))
           /\ trials_list' = <<trials>>
           /\ trials_list_after' = <<trials>>
           /\ call' = [NoCall EXCEPT !.name = "probability_tf",
                           !.variant = trials.kind,
                           !.agent_group_id = agent_group_id,
                           !.n_call = call.n_call + 1]

NextLikelihood == ProbabilityTF

SpecLikelihood == InitTrials /\ [][NextLikelihood]_vars

\* the rows written taken as the leading rows of prob_all
write_rows_leading(self, i_config) ==
    arange(Len(trial_idx(self, i_config)))

\* prob_all[trial_locs, 0:n_outcome] = prob: the rows written are the trials
\* of the configuration
write_rows(self, i_config) == trial_idx(self, i_config)

\* prob_all = np.zeros((n_trial_all, max_n_outcome)); written_by keeps, for
\* every row, the configurations whose pass wrote it
loop_start(self) ==
    [done |-> {},
     prob_all |-> [t \in 1..self.n_trial |-> Full(max_n_outcome(self), Zero)],
     written_by |-> [t \in 1..self.n_trial |-> {}]]

\* one pass of `for i_config in range(n_config)`: the columns from n_outcome
\* on are left as they are
loop_pass(self, z, attention, l, i_config) ==
    LET rows == write_rows(self, i_config)
        prob_i == config_prob(self, z, attention, i_config)
        written(t) == {k \in 1..Len(rows) : rows[k] = t - 1}
    IN [done |-> l.done \cup {i_config},
        prob_all |->
            [t \in 1..self.n_trial |->
                IF written(t) = {} THEN l.prob_all[t]
                ELSE LET k == CHOOSE k \in written(t) : TRUE
                     IN prob_i[k] \o SubSeq(l.prob_all[t], Len(prob_i[k]) + 1,
                                            Len(l.prob_all[t]))],
        written_by |->
            [t \in 1..self.n_trial |->
                IF written(t) = {} THEN l.written_by[t]
                ELSE l.written_by[t] \cup {i_config}]]

\* Agent(embedding, agent_group_id).probability(trials) up to the loop
ProbabilityStart ==
    /\ call = NoCall
    /\ UNCHANGED <<trials, trial_configuration, outcomes, prob, file>>
    /\ \E emb \in Embeddings :
       \E agent_group_id \in AgentGroupIds :
           /\ embedding' = Some(emb)
           /\ loop' = Some(loop_start(trials))
           /\ trials_list' = <<trials>>
           /\ trials_list_after' = <<trials>>
           /\ call' = [NoCall EXCEPT !.name = "probability",
                           !.variant = trials.kind,
                           !.agent_group_id = agent_group_id,
                           !.n_call = call.n_call + 1]

\* one pass of the loop, the configurations taken in any order
ProbabilityPass ==
    /\ loop.given
    /\ ~prob.given
    /\ UNCHANGED <<trials_vars, trial_configuration, outcomes, embedding,
                   prob, file>>
    /\ \E i_config \in (0..(Len(trials.config_list) - 1)) \ loop.val.done :
           loop' = Some(loop_pass(trials, embedding.val.z,
                                  embedding.val.attention[
                                      call.agent_group_id + 1],
                                  loop.val, i_config))

\* the loop is through: the rows are divided by their sums and returned
ProbabilityReturn ==
    /\ loop.given
    /\ ~prob.given
    /\ loop.val.done = 0..(Len(trials.config_list) - 1)
    /\ UNCHANGED <<trials_vars, trial_configuration, outcomes, embedding,
                   loop, file>>
    /\ prob' = Some([outcome_idx_list |-> outcome_idx_list(trials),
                     uncorrected |-> loop.val.prob_all,
                     prob_all |-> correct_rows(loop.val.prob_all)])

NextLoop ==
    \/ ProbabilityStart
    \/ ProbabilityPass
    \/ ProbabilityReturn

SpecLoop == InitTrials /\ [][NextLoop]_vars

(***************************************************************************)
(* Vocabulary of the properties.                                           *)
(***************************************************************************)
Min(S) == CHOOSE x \in S : \A y \in S : x <= y

\* the attribute tuple of trial t, as a row of the configuration table
attributes(c, t) ==
    IF c.kind = "JudgedTrials"
    THEN <<c.n_reference[t], c.n_selected[t], c.is_ranked[t], c.group_id[t], 0>>
    ELSE <<c.n_reference[t], c.n_selected[t], c.is_ranked[t]>>

n_config(c) == Len(c.config_list)

\* the first position of seq holding the value at position i
first_seen(seq, i) == Min({k \in 1..Len(seq) : seq[k] = seq[i]})

\* the container subset / simulate was called on
source == trials_list[1]

\* position in the stacked container of trial k of the j-th input
stacked_pos(j, k) ==
    Len(Flatten([m \in 1..(j - 1) |-> trials_list[m].n_selected])) + k

(***************************************************************************)
(* C1: in every container built by construct, subset, stack or simulate    *)
(* the configuration table has no two equal rows, every row is the         *)
(* configuration of some trial, the config_id values are exactly           *)
(* 0..n_config-1, the row at config_id[t] carries the attributes of trial  *)
(* t, and two trials share a config_id iff their attributes are equal.     *)
(***************************************************************************)
C1_ConfigTableMatchesTrials ==
    IsTrials(trials) =>
        /\ \A i, j \in 1..n_config(trials) :
              trials.config_list[i] = trials.config_list[j] => i = j
        /\ \A i \in 1..n_config(trials) :
              \E t \in 1..trials.n_trial : trials.config_id[t] = i - 1
        /\ Len(trials.config_id) = trials.n_trial
        /\ Range(trials.config_id) = 0..(n_config(trials) - 1)
        /\ \A t \in 1..trials.n_trial :
              trials.config_list[trials.config_id[t] + 1] = attributes(trials, t)
        /\ \A t, u \in 1..trials.n_trial :
              (trials.config_id[t] = trials.config_id[u])
              <=> (attributes(trials, t) = attributes(trials, u))

\* a stacked container of three trials, two of which share one of its two
\* configurations
C1_Witness ==
    /\ call.name = "stack"
    /\ IsTrials(trials)
    /\ trials.n_trial = 3
    /\ n_config(trials) = 2
    /\ trials.config_id = <<0, 1, 0>>

(***************************************************************************)
(* C2: the configuration table lists the configurations in order of first  *)
(* occurrence over the trials: the row of c1 precedes the row of c2        *)
(* exactly when the first trial with c1 precedes the first trial with c2.  *)
(***************************************************************************)
first_trial_with(c, row) ==
    Min({t \in 1..c.n_trial : attributes(c, t) = row})

C2_TableInFirstOccurrenceOrder ==
    IsTrials(trials) =>
        \A i, j \in 1..n_config(trials) :
            /\ \E t \in 1..trials.n_trial :
                  attributes(trials, t) = trials.config_list[i]
            /\ (i < j) <=>
                  (first_trial_with(trials, trials.config_list[i])
                     < first_trial_with(trials, trials.config_list[j]))

\* a table built by subset or stack whose rows are not in ascending order of
\* value: the first row has the larger n_reference
C2_Witness ==
    /\ call.name \in {"subset", "stack"}
    /\ IsTrials(trials)
    /\ n_config(trials) >= 2
    /\ trials.config_list[1][1] > trials.config_list[2][1]

(***************************************************************************)
(* C3: subset(index) renumbers the configurations of the selected trials   *)
(* densely in order of first appearance within the subset: two trials of   *)
(* the subset share a config_id iff the trials they were taken from did,   *)
(* and a configuration first seen earlier in index gets the smaller number.*)
(***************************************************************************)
source_config_id == [i \in 1..Len(call.index) |->
                        source.config_id[call.index[i] + 1]]

C3_SubsetRenumbersConfigurations ==
    (call.name = "subset" /\ IsTrials(trials)) =>
        \A i, j \in 1..Len(call.index) :
            /\ (trials.config_id[i] = trials.config_id[j])
               <=> (source_config_id[i] = source_config_id[j])
            /\ (first_seen(source_config_id, i) < first_seen(source_config_id, j))
               => (trials.config_id[i] < trials.config_id[j])

(***************************************************************************)
(* C4 (as stated): stacking two containers that have identical             *)
(* configuration sets yields the config_id of the first followed by the    *)
(* config_id of the second offset by the number of configurations of the   *)
(* first.                                                                  *)
(***************************************************************************)
offset_config_id ==
    trials_list[1].config_id
    \o [t \in 1..trials_list[2].n_trial |->
            trials_list[2].config_id[t] + n_config(trials_list[1])]

stacked_two_of_variant ==
    /\ call.name = "stack"
    /\ Len(trials_list) = 2
    /\ trials_list[1].kind = call.variant
    /\ trials_list[2].kind = call.variant

C4_StackIdenticalConfigurationsOffset ==
    (/\ stacked_two_of_variant
     /\ Range(trials_list[1].config_list) = Range(trials_list[2].config_list))
    => (IsTrials(trials) /\ trials.config_id = offset_config_id)

(***************************************************************************)
(* C4 (amended): stacking two containers of one variant whose              *)
(* configuration sets are disjoint yields the config_id of the first       *)
(* followed by the config_id of the second offset by the number of         *)
(* configurations of the first.                                            *)
(***************************************************************************)
C4_StackDisjointConfigurationsOffset ==
    (/\ stacked_two_of_variant
     /\ Range(trials_list[1].config_list)
          \cap Range(trials_list[2].config_list) = {})
    => (IsTrials(trials) /\ trials.config_id = offset_config_id)

\* a stack of a container with two configurations and one with a third
C4_Witness ==
    /\ stacked_two_of_variant
    /\ Range(trials_list[1].config_list)
          \cap Range(trials_list[2].config_list) = {}
    /\ n_config(trials_list[1]) = 2
    /\ IsTrials(trials)
    /\ trials.config_id = <<0, 1, 2>>

(***************************************************************************)
(* C5: stack of containers of one variant returns a container whose        *)
(* n_trial is the sum of the inputs' n_trial and whose trials are the      *)
(* inputs' trials in input order, each with the same query, references,    *)
(* n_reference, n_selected, is_ranked (and group_id for judged).           *)
(***************************************************************************)
C5_StackConcatenatesTrials ==
    (/\ call.name = "stack"
     /\ \A j \in 1..Len(trials_list) : trials_list[j].kind = call.variant)
    => /\ IsTrials(trials)
       /\ trials.kind = call.variant
       /\ trials.n_trial = stacked_pos(Len(trials_list) + 1, 0)
       /\ Len(trials.stimulus_set) = trials.n_trial
       /\ \A j \in 1..Len(trials_list) :
          \A k \in 1..trials_list[j].n_trial :
            LET in == trials_list[j]
                o == stacked_pos(j, k)
            IN /\ trials.stimulus_set[o][1] = in.stimulus_set[k][1]
               /\ \A r \in 1..in.n_reference[k] :
                     trials.stimulus_set[o][1 + r] = in.stimulus_set[k][1 + r]
               /\ trials.n_reference[o] = in.n_reference[k]
               /\ trials.n_selected[o] = in.n_selected[k]
               /\ trials.is_ranked[o] = in.is_ranked[k]
               /\ (call.variant = "JudgedTrials")
                     => (trials.group_id[o] = in.group_id[k])

\* two different judged containers stacked, the second first in the list,
\* with trials that differ in n_reference and in group_id
C5_Witness ==
    /\ call.name = "stack"
    /\ call.variant = "JudgedTrials"
    /\ Len(trials_list) = 2
    /\ trials_list[1] # trials_list[2]
    /\ IsTrials(trials)
    /\ trials.n_trial = 3
    /\ trials.n_reference[1] # trials.n_reference[3]
    /\ trials.group_id[1] # trials.group_id[3]

(***************************************************************************)
(* C6: subset(index) returns a container with len(index) trials in which   *)
(* trial i has the stimulus_set row, n_selected, is_ranked (and group_id   *)
(* for judged) of trial index[i] of the original, in the order of index,   *)
(* an index that occurs several times yielding several equal trials.       *)
(***************************************************************************)
C6_SubsetTakesIndexedTrials ==
    (call.name = "subset") =>
        /\ IsTrials(trials)
        /\ trials.kind = source.kind
        /\ trials.n_trial = Len(call.index)
        /\ Len(trials.stimulus_set) = Len(call.index)
        /\ \A i \in 1..Len(call.index) :
              LET o == call.index[i] + 1
              IN /\ trials.stimulus_set[i] = source.stimulus_set[o]
                 /\ trials.n_selected[i] = source.n_selected[o]
                 /\ trials.is_ranked[i] = source.is_ranked[o]
                 /\ (source.kind = "JudgedTrials")
                       => (trials.group_id[i] = source.group_id[o])

\* a subset that reverses two trials with different rows and different
\* n_selected
C6_Witness ==
    /\ call.name = "subset"
    /\ call.index = <<1, 0>>
    /\ IsTrials(trials)
    /\ source.stimulus_set[1] # source.stimulus_set[2]
    /\ source.n_selected[1] # source.n_selected[2]
    /\ trials.stimulus_set[1] = source.stimulus_set[2]

\* a subset that takes one trial twice
C6_WitnessRepeated ==
    /\ call.name = "subset"
    /\ call.index = <<1, 1>>
    /\ IsTrials(trials)
    /\ trials.stimulus_set = <<source.stimulus_set[2], source.stimulus_set[2]>>

(***************************************************************************)
(* C7: subset leaves the n_reference of every surviving trial unchanged.   *)
(***************************************************************************)
C7_SubsetKeepsNReference ==
    (call.name = "subset" /\ IsTrials(trials)) =>
        \A i \in 1..Len(call.index) :
            trials.n_reference[i] = source.n_reference[call.index[i] + 1]

(***************************************************************************)
(* C8: in every container built by construct, subset or stack,             *)
(* stimulus_set has exactly 1 + max(n_reference) columns.                  *)
(***************************************************************************)
C8_WidthIsOnePlusMaxNReference ==
    (call.name \in {"construct", "subset", "stack"} /\ IsTrials(trials)) =>
        Width(trials.stimulus_set) = 1 + Max(Range(trials.n_reference))

(***************************************************************************)
(* C9: in every container built by construct, subset or stack, every       *)
(* reference slot beyond the trial's n_reference holds -1 and no slot      *)
(* within the first n_reference reference columns holds -1.                *)
(***************************************************************************)
C9_SentinelExactlyBeyondNReference ==
    (call.name \in {"construct", "subset", "stack"} /\ IsTrials(trials)) =>
        \A t \in 1..trials.n_trial :
        \A r \in 1..(Width(trials.stimulus_set) - 1) :
            (trials.stimulus_set[t][1 + r] = -1) <=> (r > trials.n_reference[t])

(***************************************************************************)
(* C10: construction fails whenever some trial has n_selected outside      *)
(* [1, n_reference], in particular above n_reference, and whenever the     *)
(* n_selected array length differs from the number of trials.  The formula *)
(* states the case the claim singles out, n_selected above n_reference,    *)
(* and the length mismatch; values below 1 are the ones the constructor    *)
(* sets to 1.                                                              *)
(***************************************************************************)
\* the n_reference the constructor call declares or infers
called_n_reference ==
    IF call.n_reference.given THEN call.n_reference.val
    ELSE infer_n_reference(call.stimulus_set)

C10_InvalidNSelectedFailsConstruction ==
    (/\ call.name = "construct"
     /\ call.n_selected.given
     /\ \/ Len(call.n_selected.val) # Len(call.stimulus_set)
        \/ \E t \in 1..Len(call.stimulus_set) :
              call.n_selected.val[t] > called_n_reference[t])
    => trials = Raised

C11_WitnessGroupId ==
    /\ call.name = "construct"
    /\ call.group_id.given
    /\ call.group_id.val = <<-1, 1>>
    /\ IsTrials(trials)
    /\ trials.group_id = <<0, 1>>

(***************************************************************************)
(* C12: construction fails when the stimulus matrix has an entry below -1, *)
(* a non-sentinel value twice in a row, or a row with fewer non-sentinel   *)
(* references than the n_reference declared for the trial.                 *)
(***************************************************************************)
\* the references of a row that are not the sentinel
n_supplied(row) == Cardinality({j \in 2..Len(row) : row[j] # -1})

malformed(stimulus_set, n_reference) ==
    \E t \in 1..Len(stimulus_set) :
        \/ \E j \in 1..Len(stimulus_set[t]) : stimulus_set[t][j] < -1
        \/ \E i, j \in 1..Len(stimulus_set[t]) :
              /\ i < j
              /\ stimulus_set[t][i] # -1
              /\ stimulus_set[t][i] = stimulus_set[t][j]
        \/ n_supplied(stimulus_set[t]) < n_reference[t]

C12_MalformedStimulusSetFailsConstruction ==
    (/\ call.name = "construct"
     /\ malformed(call.stimulus_set, called_n_reference))
    => trials = Raised

(***************************************************************************)
(* C13: stack returns no container whenever its list holds both an         *)
(* UnjudgedTrials and a JudgedTrials, whichever class's stack is called    *)
(* and whatever the order of the list.                                     *)
(***************************************************************************)
C13_MixedStackFails ==
    (/\ call.name = "stack"
     /\ \E j, k \in 1..Len(trials_list) :
           trials_list[j].kind # trials_list[k].kind)
    => trials = Raised

(***************************************************************************)
(* Vocabulary of the properties of possible_outcomes.                      *)
(***************************************************************************)
\* the configuration handed in has 1 <= n_selected <= n_reference and the
\* matrix has been returned
enumerated ==
    /\ outcomes.given
    /\ 1 <= trial_configuration.val.n_selected
    /\ trial_configuration.val.n_selected <= trial_configuration.val.n_reference

RECURSIVE factorial(_)
factorial(n) == IF n = 0 THEN 1 ELSE n * factorial(n - 1)

\* n! / (n - k)!
n_outcome(n, k) == factorial(n) \div factorial(n - k)

\* the i-th (from 0) r-permutation of pool in lexicographic order, found by
\* its rank: the first element changes every n_outcome(Len(pool)-1, r-1) rows
RECURSIVE nth_permutation(_, _, _)
nth_permutation(pool, r, i) ==
    IF r = 0 THEN <<>>
    ELSE LET block == n_outcome(Len(pool) - 1, r - 1)
             k == (i \div block) + 1
         IN <<pool[k]>> \o nth_permutation(Without(pool, k), r - 1, i % block)

\* the elements of a set of numbers in ascending order
RECURSIVE ascending(_)
ascending(S) ==
    IF S = {} THEN <<>> ELSE <<Min(S)>> \o ascending(S \ {Min(S)})

\* row i (from 0) of the reference enumeration
reference_row(n_reference, n_selected, i) ==
    LET selected == nth_permutation(arange(n_reference), n_selected, i)
    IN selected \o ascending((0..(n_reference - 1)) \ Range(selected))

(***************************************************************************)
(* C14: for every configuration with 1 <= n_selected <= n_reference, row 0 *)
(* of possible_outcomes is the identity ordering (0, 1, ..., n_reference-1).*)
(***************************************************************************)
C14_FirstOutcomeIsIdentity ==
    enumerated =>
        /\ Len(outcomes.val) >= 1
        /\ outcomes.val[1] =
              [k \in 1..trial_configuration.val.n_reference |-> k - 1]

\* the outcomes of 3 references with 2 selected, the first being (0, 1, 2)
C14_Witness ==
    /\ enumerated
    /\ trial_configuration.val.n_reference = 3
    /\ trial_configuration.val.n_selected = 2
    /\ outcomes.val[1] = <<0, 1, 2>>
    /\ outcomes.val[2] = <<0, 2, 1>>

(***************************************************************************)
(* C15: for every configuration with 1 <= n_selected <= n_reference,       *)
(* possible_outcomes returns exactly n_reference!/(n_reference-n_selected)!*)
(* rows of n_reference columns each, whatever is_ranked is.                *)
(***************************************************************************)
C15_OutcomeCount ==
    enumerated =>
        /\ Len(outcomes.val) =
              n_outcome(trial_configuration.val.n_reference,
                        trial_configuration.val.n_selected)
        /\ \A i \in 1..Len(outcomes.val) :
              Len(outcomes.val[i]) = trial_configuration.val.n_reference

\* an unranked configuration of 4 references with 2 selected: 12 outcomes
C15_Witness ==
    /\ enumerated
    /\ trial_configuration.val.n_reference = 4
    /\ trial_configuration.val.n_selected = 2
    /\ ~trial_configuration.val.is_ranked
    /\ Len(outcomes.val) = 12

(***************************************************************************)
(* C16: row i of possible_outcomes holds in its first n_selected columns   *)
(* the i-th n_selected-permutation of 0..n_reference-1 in lexicographic    *)
(* order and in the columns left the indices not selected, ascending; so   *)
(* every row is a permutation of 0..n_reference-1 and no two rows are      *)
(* equal.                                                                  *)
(***************************************************************************)
C16_OutcomesAreLexicographicEnumeration ==
    enumerated =>
        LET n_reference == trial_configuration.val.n_reference
            n_selected == trial_configuration.val.n_selected
        IN /\ Len(outcomes.val) = n_outcome(n_reference, n_selected)
           /\ \A i \in 1..Len(outcomes.val) :
                 /\ outcomes.val[i] =
                       reference_row(n_reference, n_selected, i - 1)
                 /\ Range(outcomes.val[i]) = 0..(n_reference - 1)
                 /\ Len(outcomes.val[i]) = n_reference
           /\ \A i, j \in 1..Len(outcomes.val) :
                 (outcomes.val[i] = outcomes.val[j]) => (i = j)

\* 4 references with 2 selected: row 1 is (0, 2, 1, 3), the last (3, 2, 0, 1)
C16_Witness ==
    /\ enumerated
    /\ trial_configuration.val.n_reference = 4
    /\ trial_configuration.val.n_selected = 2
    /\ outcomes.val[2] = <<0, 2, 1, 3>>
    /\ outcomes.val[12] = <<3, 2, 0, 1>>

(***************************************************************************)
(* Vocabulary of the properties of Agent.probability.                      *)
(***************************************************************************)
\* the configuration row of trial t of container c
configuration(c, t) == c.config_list[c.config_id[t] + 1]

\* trial t of c has 1 <= n_selected <= n_reference
selectable(c, t) ==
    /\ 1 <= configuration(c, t)[2]
    /\ configuration(c, t)[2] <= configuration(c, t)[1]

\* the number of outcomes enumerated for trial t of the container of the call
enumerated_n_outcome(t) ==
    Len(prob.val.outcome_idx_list[source.config_id[t] + 1])

\* the similarities of the query of trial t to its references, as the agent
\* of the call has them
called_s_qref(t) ==
    s_qref(source, embedding.val.z,
           embedding.val.attention[call.agent_group_id + 1], t)

\* s[o[p]] / (s[o[p]] + ... + s[o[n_reference-1]]) for p, p+1, ...,
\* n_selected-1, multiplied in that order
RECURSIVE luce_choice(_, _, _, _)
luce_choice(s, o, p, n_selected) ==
    IF p >= n_selected THEN One
    ELSE np_multiply(
            np_divide(s[o[p + 1] + 1],
                      np_sum([j \in 1..(Len(o) - p) |-> s[o[p + j] + 1]])),
            luce_choice(s, o, p + 1, n_selected))

(***************************************************************************)
(* C17: for every trial with 1 <= n_selected <= n_reference, whatever the  *)
(* embedding and the group of the agent, the probabilities probability     *)
(* gives the trial's n_outcome outcomes sum to exactly 1, before the       *)
(* closing division by the row sum and after it.                           *)
(***************************************************************************)
C17_ProbabilitiesSumToOne ==
    prob.given =>
        \A t \in 1..source.n_trial :
            selectable(source, t) =>
                /\ enumerated_n_outcome(t) =
                      n_outcome(configuration(source, t)[1],
                                configuration(source, t)[2])
                /\ np_sum(SubSeq(prob.val.uncorrected[t], 1,
                                 enumerated_n_outcome(t))) = One
                /\ np_sum(SubSeq(prob.val.prob_all[t], 1,
                                 enumerated_n_outcome(t))) = One

\* two trials of different configurations, 2 and 6 outcomes: the row of the
\* first is filled with zeros up to 6, and the outcomes of the second are
\* not equally likely
C17_Witness ==
    /\ prob.given
    /\ source.n_trial = 2
    /\ selectable(source, 1)
    /\ selectable(source, 2)
    /\ enumerated_n_outcome(1) = 2
    /\ enumerated_n_outcome(2) = 6
    /\ Len(prob.val.prob_all[1]) = 6
    /\ prob.val.prob_all[1][3] = Zero
    /\ prob.val.prob_all[2][1] # prob.val.prob_all[2][2]

(***************************************************************************)
(* C18: for every trial and every outcome o enumerated for it, the         *)
(* probability the reverse-order loop computes is the sequential Luce      *)
(* choice product over p = 0..n_selected-1 of                              *)
(* s[o[p]] / (s[o[p]] + ... + s[o[n_reference-1]]); with 2 references and  *)
(* 1 selected there are exactly 2 outcomes and the probability of choosing *)
(* reference 1 is s1 / (s0 + s1).                                          *)
(***************************************************************************)
C18_ProbabilityIsLuceChoice ==
    prob.given =>
        \A t \in 1..source.n_trial :
            selectable(source, t) =>
                LET s == called_s_qref(t)
                    o == prob.val.outcome_idx_list[source.config_id[t] + 1]
                    n_selected == configuration(source, t)[2]
                IN /\ \A i \in 1..Len(o) :
                         /\ prob.val.uncorrected[t][i] =
                               luce_choice(s, o[i], 0, n_selected)
                         /\ prob.val.prob_all[t][i] =
                               luce_choice(s, o[i], 0, n_selected)
                   /\ (configuration(source, t)[1] = 2 /\ n_selected = 1) =>
                         /\ Len(o) = 2
                         /\ o[2] = <<1, 0>>
                         /\ prob.val.prob_all[t][2] =
                               np_divide(s[2], np_add(s[1], s[2]))

\* query 3 with references 4, 5, 6 at distances 1, 2, 3 and attention 1:
\* similarities 1/2, 1/3, 1/4; selecting reference 0 then reference 1 has
\* probability (1/2)/(13/12) * (1/3)/(7/12) = 24/91
C18_Witness ==
    /\ prob.given
    /\ configuration(source, 1)[1] = 3
    /\ configuration(source, 1)[2] = 2
    /\ called_s_qref(1) = << <<1, 2>>, <<1, 3>>, <<1, 4>> >>
    /\ prob.val.outcome_idx_list[source.config_id[1] + 1][1] = <<0, 1, 2>>
    /\ prob.val.prob_all[1][1] = <<24, 91>>

\* query 0 with references 1, 2: similarities 1/2, 1/3; choosing reference 1
\* has probability (1/3)/(5/6) = 2/5
C18_WitnessTwoReferences ==
    /\ prob.given
    /\ configuration(source, 1)[1] = 2
    /\ configuration(source, 1)[2] = 1
    /\ called_s_qref(1) = << <<1, 2>>, <<1, 3>> >>
    /\ prob.val.prob_all[1] = << <<3, 5>>, <<2, 5>> >>

(***************************************************************************)
(* C19: simulate(trials) returns a JudgedTrials with as many trials as the *)
(* input, in the same order, every trial with the n_selected, is_ranked    *)
(* and n_reference of the input trial and with the group_id the agent is   *)
(* configured with.                                                        *)
(***************************************************************************)
C19_SimulateKeepsTrialMetadata ==
    (call.name = "simulate" /\ IsTrials(trials)) =>
        /\ trials.kind = "JudgedTrials"
        /\ trials.n_trial = source.n_trial
        /\ \A t \in 1..source.n_trial :
              /\ trials.stimulus_set[t][1] = source.stimulus_set[t][1]
              /\ trials.n_selected[t] = source.n_selected[t]
              /\ trials.is_ranked[t] = source.is_ranked[t]
              /\ trials.n_reference[t] = source.n_reference[t]
              /\ trials.group_id[t] = call.agent_group_id

(***************************************************************************)
(* C20: for every trial, whatever outcome is drawn, simulate keeps the     *)
(* query, writes into reference columns 1..n_reference the first           *)
(* n_reference references of the input trial reordered by one row of the   *)
(* outcome set of the trial's configuration (column 1+k holds input        *)
(* reference outcome[k]), the index of that row being below n_outcome;     *)
(* the set of references is kept, and every column beyond n_reference      *)
(* holds -1.                                                               *)
(***************************************************************************)
C20_SimulateReordersReferences ==
    (call.name = "simulate" /\ IsTrials(trials)) =>
        \A t \in 1..source.n_trial :
            LET n_reference == configuration(source, t)[1]
                o == possible_outcomes(n_reference, configuration(source, t)[2])
                in == source.stimulus_set[t]
                out == trials.stimulus_set[t]
            IN /\ Len(out) = Len(in)
               /\ out[1] = in[1]
               /\ \E i \in 0..(n_outcome(n_reference,
                                         configuration(source, t)[2]) - 1) :
                     \A k \in 0..(n_reference - 1) :
                        out[2 + k] = in[2 + o[i + 1][k + 1]]
               /\ {out[1 + r] : r \in 1..n_reference}
                     = {in[1 + r] : r \in 1..n_reference}
               /\ \A r \in (n_reference + 1)..(Len(out) - 1) : out[1 + r] = -1

\* a trial of 2 references judged with the second reference chosen: the
\* references change places and the zeros the input holds beyond them are -1
C20_Witness ==
    /\ call.name = "simulate"
    /\ IsTrials(trials)
    /\ source.n_reference[1] = 2
    /\ SubSeq(source.stimulus_set[1], 1, 4) = <<0, 1, 2, 0>>
    /\ SubSeq(trials.stimulus_set[1], 1, 4) = <<0, 2, 1, -1>>

(***************************************************************************)
(* C23: an argument a constructor call omits takes its default: n_selected *)
(* is 1 for every trial, is_ranked is true for every trial, group_id is 0  *)
(* for every trial of a JudgedTrials, and n_reference of a trial is the    *)
(* number of non-negative reference columns of the trial's row (the query  *)
(* of the row being a stimulus index).                                     *)
(***************************************************************************)
C23_OmittedArgumentsTakeDefaults ==
    (call.name = "construct" /\ IsTrials(trials)) =>
        \A t \in 1..trials.n_trial :
            /\ ~call.n_selected.given => trials.n_selected[t] = 1
            /\ ~call.is_ranked.given => trials.is_ranked[t] = TRUE
            /\ (trials.kind = "JudgedTrials" /\ ~call.group_id.given) =>
                  trials.group_id[t] = 0
            /\ (~call.n_reference.given /\ call.stimulus_set[t][1] >= 0) =>
                  trials.n_reference[t] =
                     Cardinality({j \in 2..Width(call.stimulus_set) :
                                     call.stimulus_set[t][j] >= 0})

\* a JudgedTrials built from the matrix alone: a row of 2 references, then a
\* row holding a reference and an entry below the sentinel
C23_Witness ==
    /\ call.name = "construct"
    /\ trials.kind = "JudgedTrials"
    /\ ~call.n_selected.given /\ ~call.is_ranked.given
    /\ ~call.group_id.given /\ ~call.n_reference.given
    /\ call.stimulus_set = <<stimulus_row(0, 2, 3), malformed_row>>
    /\ trials.n_reference = <<2, 1>>
    /\ trials.n_selected = <<1, 1>>
    /\ trials.is_ranked = <<TRUE, TRUE>>
    /\ trials.group_id = <<0, 0>>

(***************************************************************************)
(* C28 (as stated): in probability, the similarities of a trial are        *)
(* computed with the attention weights of the trial's own group: in a      *)
(* JudgedTrials whose trials carry different group_id values, the          *)
(* distribution of each trial is the one its own group's weights give.     *)
(***************************************************************************)
\* the similarities of trial t under the weights of the group it carries
own_group_s_qref(t) ==
    s_qref(source, embedding.val.z,
           embedding.val.attention[source.group_id[t] + 1], t)

C28_TrialGroupAttention ==
    (prob.given /\ source.kind = "JudgedTrials") =>
        \A t \in 1..source.n_trial :
            selectable(source, t) =>
                LET o == prob.val.outcome_idx_list[source.config_id[t] + 1]
                IN \A i \in 1..Len(o) :
                      prob.val.prob_all[t][i] =
                         luce_choice(own_group_s_qref(t), o[i], 0,
                                     configuration(source, t)[2])

(***************************************************************************)
(* C28 (amended): in probability, the similarities of every trial are      *)
(* computed with the attention weights of the group the agent is           *)
(* configured with: in a JudgedTrials, whatever group_id its trials carry, *)
(* the distribution of each trial is the one the agent's group's weights   *)
(* give.                                                                   *)
(***************************************************************************)
C28_AgentGroupAttention ==
    (prob.given /\ source.kind = "JudgedTrials") =>
        \A t \in 1..source.n_trial :
            selectable(source, t) =>
                LET o == prob.val.outcome_idx_list[source.config_id[t] + 1]
                IN \A i \in 1..Len(o) :
                      prob.val.prob_all[t][i] =
                         luce_choice(called_s_qref(t), o[i], 0,
                                     configuration(source, t)[2])

\* an agent of group 0 on a JudgedTrials whose second trial is of group 1:
\* the trial's distribution is not the one the weights of group 1 give
C28_Witness ==
    /\ prob.given
    /\ source.kind = "JudgedTrials"
    /\ call.agent_group_id = 0
    /\ source.group_id = <<0, 1>>
    /\ selectable(source, 2)
    /\ configuration(source, 2)[1] = 2
    /\ prob.val.prob_all[2][1] =
          luce_choice(called_s_qref(2), <<0, 1>>, 0, 1)
    /\ prob.val.prob_all[2][1] #
          luce_choice(own_group_s_qref(2), <<0, 1>>, 0, 1)

(***************************************************************************)
(* C30: probability returns one outcome set per configuration, in the      *)
(* order of the configuration table, the i-th with n_outcome_i rows of     *)
(* n_reference_i columns; the probability matrix has n_trial rows of       *)
(* max_i(n_outcome_i) columns, and in the row of every trial every entry   *)
(* at or beyond the n_outcome of the trial's configuration is 0.           *)
(***************************************************************************)
C30_ProbabilityShapeAndZeroFill ==
    prob.given =>
        LET o == prob.val.outcome_idx_list
            width == Max({0} \cup {Len(o[i]) : i \in 1..Len(o)})
        IN /\ Len(o) = n_config(source)
           /\ \A i \in 1..Len(o) :
                 /\ o[i] = possible_outcomes(source.config_list[i][1],
                                             source.config_list[i][2])
                 /\ \A r \in 1..Len(o[i]) :
                       Len(o[i][r]) = source.config_list[i][1]
           /\ Len(prob.val.prob_all) = source.n_trial
           /\ \A t \in 1..source.n_trial :
                 /\ Len(prob.val.prob_all[t]) = width
                 /\ \A k \in (enumerated_n_outcome(t) + 1)..width :
                       prob.val.prob_all[t][k] = Zero

(***************************************************************************)
(* C21: RandomGenerator(n_stimuli).generate(n_trial, n_reference,          *)
(* n_selected, is_ranked), asked for n_reference + 1 <= n_stimuli stimuli  *)
(* per trial and n_selected >= 1, returns an UnjudgedTrials of exactly     *)
(* n_trial trials, each with the n_reference, n_selected and is_ranked     *)
(* asked for, in which every stimulus index is at least -1 and below       *)
(* n_stimuli and the query and the n_reference references of every trial   *)
(* are pairwise distinct.                                                  *)
(***************************************************************************)
C21_GenerateReturnsRequestedTrials ==
    (/\ call.name = "generate"
     /\ call.n_reference + 1 <= call.n_stimuli
     /\ call.n_selected >= 1)
    => /\ trials.kind = "UnjudgedTrials"
       /\ trials.n_trial = call.n_trial
       /\ \A t \in 1..trials.n_trial :
             /\ trials.n_reference[t] = call.n_reference
             /\ trials.n_selected[t] = call.n_selected
             /\ trials.is_ranked[t] = call.is_ranked
             /\ \A j \in 1..Len(trials.stimulus_set[t]) :
                   /\ trials.stimulus_set[t][j] >= -1
                   /\ trials.stimulus_set[t][j] < call.n_stimuli
             /\ \A i, j \in 1..(call.n_reference + 1) :
                   i # j => trials.stimulus_set[t][i] # trials.stimulus_set[t][j]

(***************************************************************************)
(* C22: subset, stack, probability and simulate leave every attribute of   *)
(* the containers handed to them as it was (stimulus_set, n_reference,     *)
(* n_selected, is_ranked, group_id, config_list, config_id): what they     *)
(* return is a new object.                                                 *)
(***************************************************************************)
C22_CallsLeaveInputsUnchanged ==
    call.name \in {"subset", "stack", "simulate", "probability"} =>
        trials_list_after = trials_list

\* a stack of one JudgedTrials with group_id given: the constructor is handed
\* the container's own n_selected and group_id arrays and finds nothing
\* to write
C22_Witness ==
    /\ call.name = "stack"
    /\ Len(trials_list) = 1
    /\ trials.kind = "JudgedTrials"
    /\ 1 \in Range(trials.group_id)
    /\ trials_list_after = trials_list
    /\ trials.n_selected = trials_list[1].n_selected
    /\ trials.group_id = trials_list[1].group_id

\* a simulate that reorders the references of its trial in the container it
\* returns and not in the one it was handed
C22_WitnessSimulate ==
    /\ call.name = "simulate"
    /\ IsTrials(trials)
    /\ trials_list_after = trials_list
    /\ SubSeq(trials.stimulus_set[1], 1, 3) = <<0, 2, 1>>
    /\ SubSeq(trials_list[1].stimulus_set[1], 1, 3) = <<0, 1, 2>>

C25_WitnessScalar ==
    /\ call.name = "set_group_id"
    /\ call.group_id.val = Scalar(3)
    /\ source.group_id = <<0, 1>>
    /\ n_config(source) = 2
    /\ trials.group_id = <<3, 3>>
    /\ n_config(trials) = 1

\* an array one entry too long: the call fails, the container is as it was
C25_WitnessRaises ==
    /\ call.name = "set_group_id"
    /\ call.variant = Raised.kind
    /\ Len(call.group_id.val.val) = source.n_trial + 1
    /\ trials = source
    /\ trials.group_id = <<0, 1>>

(***************************************************************************)
(* C26: probability_tf returns a matrix whose row t is the outcome         *)
(* distribution of trial t, whatever the assignment of the trials to       *)
(* configurations, containers included in which the trials of different    *)
(* configurations alternate (config_id [0,1,1,0]).                         *)
(***************************************************************************)
\* the similarities of trial t under the weights probability_tf takes
tf_s_qref(t) ==
    s_qref(source, embedding.val.z, embedding.val.attention[1], t)

C26_RowIsDistributionOfItsTrial ==
    call.name = "probability_tf" =>
        \A t \in 1..source.n_trial :
            LET o == prob.val.outcome_idx_list[source.config_id[t] + 1]
            IN \A i \in 1..Len(o) :
                  prob.val.prob_all[t][i] =
                     luce_choice(tf_s_qref(t), o[i], 0,
                                 configuration(source, t)[2])

(***************************************************************************)
(* C27: for every agent, whatever its group_id, and every container,       *)
(* probability_tf handed tensors equal to the values the embedding stores  *)
(* returns the outcome sets and the probability matrix probability         *)
(* returns, computed with the same attention weights.                      *)
(***************************************************************************)
C27_ProbabilityTFAgreesWithProbability ==
    call.name = "probability_tf" =>
        LET p == Agent_probability(source, embedding.val, call.agent_group_id)
        IN /\ prob.val.outcome_idx_list = p.outcome_idx_list
           /\ prob.val.prob_all = p.prob_all

(***************************************************************************)
(* C29: in probability, every row of the matrix is written by the pass of  *)
(* one configuration, the one at position config_id[t] of the table, and   *)
(* by no other; so the passes taken in any order give the same matrix,     *)
(* row t holding the distribution of trial t.                              *)
(***************************************************************************)
\* the distribution of trial t, filled with zeros up to the width of the
\* matrix
distribution(t) ==
    LET o == outcome_idx_list(source)[source.config_id[t] + 1]
    IN [i \in 1..max_n_outcome(source) |->
            IF i <= Len(o)
            THEN luce_choice(called_s_qref(t), o[i], 0,
                             configuration(source, t)[2])
            ELSE Zero]

C29_RowsWrittenByOwnConfiguration ==
    loop.given =>
        /\ \A t \in 1..source.n_trial :
              /\ loop.val.written_by[t] \subseteq {source.config_id[t]}
              /\ source.config_id[t] \in loop.val.done =>
                    /\ loop.val.written_by[t] = {source.config_id[t]}
                    /\ loop.val.prob_all[t] = distribution(t)
              /\ source.config_id[t] \notin loop.val.done =>
                    loop.val.prob_all[t] = Full(max_n_outcome(source), Zero)
        /\ prob.given =>
              /\ prob.val.uncorrected =
                    [t \in 1..source.n_trial |-> distribution(t)]
              /\ prob.val.prob_all =
                    Agent_probability(source, embedding.val,
                                      call.agent_group_id).prob_all

\* trials of configurations 0, 1, 1, 0, the pass of configuration 1 made
\* before that of configuration 0: rows 1 and 2 are written, rows 0 and 3
\* are not
C29_Witness ==
    /\ loop.given
    /\ source.config_id = <<0, 1, 1, 0>>
    /\ loop.val.done = {1}
    /\ loop.val.written_by = <<{}, {1}, {1}, {}>>
    /\ loop.val.prob_all[2] = distribution(2)
    /\ loop.val.prob_all[2] # loop.val.prob_all[3]
    /\ loop.val.prob_all[1] = Full(max_n_outcome(source), Zero)

\* three configurations, all passes made, the matrix returned
C29_WitnessReturned ==
    /\ prob.given
    /\ loop.given
    /\ source.config_id = <<0, 1, 2, 0>>
    /\ loop.val.done = {0, 1, 2}
    /\ prob.val.prob_all[1] # prob.val.prob_all[4]

====
